---- MODULE Spec2Model ----
(***************************************************************************)
(* Task lifecycle, assignment and bulk import of the Validiant             *)
(* productivity tracker (src/index.js).                                    *)
(*                                                                         *)
(* The Task table is the state.  Every HTTP handler that writes a task is  *)
(* one action: it reads the row, builds the values it writes and persists  *)
(* them with one task.update / Task.create / task.destroy, writes its      *)
(* ActivityLog row and answers.  A nullable column is a set: {} is NULL    *)
(* and {v} is the value v.  A string whose characters the code inspects    *)
(* (pincode, title) is a tuple of one-character strings.                   *)
(***************************************************************************)
EXTENDS Integers, Sequences, FiniteSets, TLC

\* ------------------------------------------------------------------ bounds
\* Last instant of the logical clock; new Date() reads a value in 1..MaxTime.
MaxTime == 2

\* ------------------------------------------------------- nullable columns
Null == {}

Some(v) == {v}

Val(o) == CHOOSE v \in o : TRUE

\* ------------------------------------------------------------------ users
\* The Users table: the admin account and two employees created through
\* POST /api/users.  No handler changes a role or deletes a user.
Users == (1 :> "admin") @@ (2 :> "employee") @@ (3 :> "employee")

\* User.findByPk(id)
UserFindByPk(id) == IF id \in DOMAIN Users THEN Some(Users[id]) ELSE Null

\* ---------------------------------------------------------------- statuses
\* isIn validator of Task.status
Statuses ==
  { "Unassigned", "Pending", "Completed", "Verified", "Left Job",
    "Not Sharing Info", "Not Picking", "Switch Off", "Incorrect Number",
    "Wrong Address" }

\* The table the update handler declares (and never consults).
validTransitions ==
  [ s \in {"Unassigned", "Pending", "Completed", "Verified"} |->
      CASE s = "Unassigned" -> {"Pending"}
        [] s = "Pending" -> { "Completed", "Left Job", "Not Sharing Info",
                              "Not Picking", "Switch Off",
                              "Incorrect Number", "Wrong Address" }
        [] s = "Completed" -> {"Verified"}
        [] s = "Verified" -> {} ]

\* ------------------------------------------------------------------- clock
\* Clock instants per UTC calendar day.
TicksPerDay == 2

\* new Date().toISOString().split("T")[0] : the UTC calendar day of an instant
DateOf(t) == t \div TicksPerDay

\* ----------------------------------------------------------------- strings
Digits == {"0", "1", "2", "3", "4", "5", "6", "7", "8", "9"}

RECURSIVE TrimStart(_)
TrimStart(s) ==
  IF s # <<>> /\ Head(s) = " " THEN TrimStart(Tail(s)) ELSE s

RECURSIVE TrimEnd(_)
TrimEnd(s) ==
  IF s # <<>> /\ s[Len(s)] = " " THEN TrimEnd(SubSeq(s, 1, Len(s) - 1)) ELSE s

\* String.prototype.trim
Trim(s) == TrimEnd(TrimStart(s))

\* /^[0-9]{6}$/.test(s)
IsSixDigits(s) == Len(s) = 6 /\ \A i \in 1..Len(s) : s[i] \in Digits

\* ------------------------------------------------------------- coordinates
\* A number with a decimal point: sign, whole part, and the digits of the
\* fraction without trailing zeros (12.50 and 12.5 are one number, and so
\* are -0.0 and 0.0).
Zero == [ neg |-> FALSE, whole |-> 0, frac |-> <<>> ]

DigitValue(c) ==
  CHOOSE n \in 0..9 :
    <<"0", "1", "2", "3", "4", "5", "6", "7", "8", "9">>[n + 1] = c

RECURSIVE ToNat(_)
ToNat(ds) ==
  IF ds = <<>> THEN 0
  ELSE 10 * ToNat(SubSeq(ds, 1, Len(ds) - 1)) + DigitValue(ds[Len(ds)])

RECURSIVE DropZeros(_)
DropZeros(ds) ==
  IF ds # <<>> /\ ds[Len(ds)] = "0"
    THEN DropZeros(SubSeq(ds, 1, Len(ds) - 1))
    ELSE ds

\* parseFloat(s) for a string s that matched -?\d+\.\d+
parseFloat(s) ==
  LET minus == s[1] = "-"
      body == IF minus THEN Tail(s) ELSE s
      dot == CHOOSE i \in 1..Len(body) : body[i] = "."
      whole == ToNat(SubSeq(body, 1, dot - 1))
      frac == DropZeros(SubSeq(body, dot + 1, Len(body)))
  IN [ neg |-> minus /\ (whole # 0 \/ frac # <<>>),
       whole |-> whole, frac |-> frac ]

\* min: -bound, max: bound of a FLOAT column
InRange(n, bound) == n.whole < bound \/ (n.whole = bound /\ n.frac = <<>>)

\* \d+ at position p of s: the number of characters it takes (greedy)
RECURSIVE DigitRun(_, _)
DigitRun(s, p) ==
  IF p <= Len(s) /\ s[p] \in Digits THEN 1 + DigitRun(s, p + 1) ELSE 0

\* The length of a match that took `taken` characters and then a run of
\* `run` characters for a + group: none (0) when the run is empty.
Taking(taken, run) == IF run > 0 THEN taken + run ELSE 0

\* \.\d+ at position dot of s, after a whole part of w digits: the length
\* of \d+\.\d+, 0 when it does not match
FractionAt(s, dot, w) ==
  IF w > 0 /\ dot <= Len(s) /\ s[dot] = "."
    THEN Taking(w + 1, DigitRun(s, dot + 1))
    ELSE 0

\* \d+\.\d+ at position p of s
DecimalAt(s, p, w) == FractionAt(s, p + w, w)

\* -?\d+\.\d+ at position p of s, sign being the length -? takes there: the
\* number of characters it takes, 0 when it does not match
SignedAt(s, p, sign) ==
  Taking(sign, DecimalAt(s, p + sign, DigitRun(s, p + sign)))

NumberAt(s, p) ==
  SignedAt(s, p, IF p <= Len(s) /\ s[p] = "-" THEN 1 ELSE 0)

\* The two groups of lengths a and b, a comma between them, parsed.
Groups(s, p, a, b) ==
  IF b > 0
    THEN Some([ latitude |-> parseFloat(SubSeq(s, p, p + a - 1)),
                longitude |-> parseFloat(SubSeq(s, p + a + 1, p + a + b)) ])
    ELSE Null

\* ,(-?\d+\.\d+) after a first group of length a at position p
SecondAt(s, p, a) ==
  IF a > 0 /\ p + a <= Len(s) /\ s[p + a] = ","
    THEN Groups(s, p, a, NumberAt(s, p + a + 1))
    ELSE Null

\* (-?\d+\.\d+),(-?\d+\.\d+) at position p of s: the two groups, parsed
PairAt(s, p) == SecondAt(s, p, NumberAt(s, p))

\* The positions of url where the literal prefix and then a pair match.
Starts(url, prefix) ==
  { p \in 1..Len(url) :
      /\ p + Len(prefix) - 1 <= Len(url)
      /\ SubSeq(url, p, p + Len(prefix) - 1) = prefix
      /\ PairAt(url, p + Len(prefix)) # Null }

Leftmost(url, n, starts) ==
  IF starts = {} THEN Null
  ELSE PairAt(url, (CHOOSE p \in starts : \A r \in starts : p <= r) + n)

\* url.match(pattern) for a pattern made of a literal prefix followed by the
\* two groups: the leftmost position where the whole pattern matches
Match(url, prefix) == Leftmost(url, Len(prefix), Starts(url, prefix))

\* `a || b` on two nullable values
OrElse(a, b) == IF a # Null THEN a ELSE b

\* The extractor as it would be if it tried the ?q= pattern before the @
\* pattern.
extractCoordinates_QueryFirst(url) ==
  IF url = Null \/ Val(url) = <<>> THEN Null
  ELSE LET match1 == Match(Val(url), <<"?", "q", "=">>)
           match2 == Match(Val(url), <<"@">>)
       IN OrElse(match1, match2)

\* extractCoordinates(url): {} is the null it returns
extractCoordinates(url) ==
  IF url = Null \/ Val(url) = <<>> THEN Null
  ELSE LET match1 == Match(Val(url), <<"@">>)
           match2 == Match(Val(url), <<"?", "q", "=">>)
       IN OrElse(match1, match2)

VARIABLES
  tasks,        \* the Task table: id -> row
  nextId,       \* the next AUTOINCREMENT id
  now,          \* the latest instant any handler has read from the clock
  last,         \* the latest request and the response it got
  activityLog,  \* the ActivityLog rows the latest request wrote
  inflight      \* per request slot: the request that has read its task and
                \* not written it yet

vars == <<tasks, nextId, now, last, activityLog, inflight>>

\* -------------------------------------------------------------- task rows
\* The row as it would be if the import handed it to employee 2.
TaskRow_Assigned(title, pincode) ==
  [ title |-> title, pincode |-> pincode, assignedTo |-> Some(2),
    assignedDate |-> Null, assignedAtTimestamp |-> Null,
    status |-> "Pending", notes |-> Null, completedAt |-> Null,
    verifiedAt |-> Null, manualDate |-> Null, manualTime |-> Null,
    mapUrl |-> Null, latitude |-> Null, longitude |-> Null ]

\* The columns of the Task model the handlers below read or write.
TaskRow(title, pincode) ==
  [ title |-> title, pincode |-> pincode, assignedTo |-> Null,
    assignedDate |-> Null, assignedAtTimestamp |-> Null,
    status |-> "Unassigned", notes |-> Null, completedAt |-> Null,
    verifiedAt |-> Null, manualDate |-> Null, manualTime |-> Null,
    mapUrl |-> Null, latitude |-> Null, longitude |-> Null ]

\* The ids of the rows the table is given: each handler reads and writes only
\* the row its request names, so one row goes through every lifecycle.
RowIds == {1}

\* Task.findByPk(id)
TaskFindByPk(id) == IF id \in DOMAIN tasks THEN Some(tasks[id]) ELSE Null

\* GET /api/tasks: the ids of the rows Task.findAll returns for the query
\* parameters role, userId, status and employeeId ({} when absent).
GetTasks(query) ==
  { id \in DOMAIN tasks :
      LET t == tasks[id] IN
      /\ query.role = "employee"
           => /\ query.userId # Null /\ t.assignedTo = query.userId
              /\ IF query.status # Null THEN t.status = Val(query.status)
                 ELSE t.status # "Unassigned"
      /\ query.role = "admin"
           => /\ query.status \notin { Null, Some("all") }
                   => t.status = Val(query.status)
              /\ query.employeeId # Null
                   => t.assignedTo = query.employeeId }

\* GET /api/tasks/unassigned
GetUnassignedTasks ==
  { id \in DOMAIN tasks :
      tasks[id].assignedTo = Null \/ tasks[id].status = "Unassigned" }

\* ------------------------------------------------------------ responses
NoReport ==
  [ successCount |-> 0, errorCount |-> 0, errors |-> Null,
    hasMoreErrors |-> FALSE ]

\* The file multer stored for a request (req.file): whether the request
\* carried one, the decoded rows of its first sheet, whether the file is
\* still on disk, and how often the handler has called fs.unlinkSync on it.
NoFile == [ received |-> FALSE, data |-> << >>, exists |-> FALSE, unlinks |-> 0 ]

Received(data) ==
  [ received |-> TRUE, data |-> data, exists |-> TRUE, unlinks |-> 0 ]

\* fs.unlinkSync(req.file.path)
Unlink(f) == [ f EXCEPT !.exists = FALSE, !.unlinks = @ + 1 ]

\* The catch block as it would be without its clean-up.
Cleanup_Skipped(f) == f

\* The clean-up of the catch block:
\* if (req.file && fs.existsSync(req.file.path)) fs.unlinkSync(req.file.path)
Cleanup(f) == IF f.received /\ f.exists THEN Unlink(f) ELSE f

\* What the handler of request op answered: HTTP status and message; upload
\* is the request's file as it is when the response is sent.
Response(op, id, emp, status, code, msg) ==
  [ op |-> op, id |-> id, emp |-> emp, status |-> status, code |-> code,
    msg |-> msg, report |-> NoReport, upload |-> NoFile ]

\* ---------------------------------------------------------- activity log
\* logActivity: ActivityLog.create, whose failure is caught and only logged.
\* userId references Users, so a userId of no user makes the insert fail.
logActivity(userId, action, taskId, oldValue, newValue) ==
  IF userId = Null \/ Val(userId) \in DOMAIN Users
    THEN << [ userId |-> userId, action |-> action, taskId |-> taskId,
              oldValue |-> oldValue, newValue |-> newValue ] >>
    ELSE << >>

\* ------------------------------------------------------------------ Assign
\* The values POST /api/tasks/:taskId/assign writes; the clock is read once
\* for the date (at t1) and once for the timestamp (at t2).
\* Assign as it would be if it kept a later status, the way Reassign does.
AssignUpdates_KeepStatus(task, employeeId, t1, t2) ==
  [ task EXCEPT !.assignedTo = Some(employeeId),
                !.assignedDate = Some(DateOf(t1)),
                !.assignedAtTimestamp = Some(t2),
                !.status = IF task.status = "Unassigned" THEN "Pending"
                           ELSE task.status ]

\* Assign as it would be if it stamped a local time ahead of the clock the
\* other handlers read.
AssignUpdates_Skewed(task, employeeId, t1, t2) ==
  [ task EXCEPT !.assignedTo = Some(employeeId),
                !.assignedDate = Some(DateOf(t1)),
                !.assignedAtTimestamp = Some(t2 + 1),
                !.status = "Pending" ]

AssignUpdates(task, employeeId, t1, t2) ==
  [ task EXCEPT !.assignedTo = Some(employeeId),
                !.assignedDate = Some(DateOf(t1)),
                !.assignedAtTimestamp = Some(t2),
                !.status = "Pending" ]

\* The handler as it would be if it looked the task up before it examined the
\* body (the first two checks exchanged).
Assign_TaskFirst(id, emp, actor) ==
  IF TaskFindByPk(id) = Null
    THEN /\ last' = Response("Assign", id, emp, Null, 404, "Task not found")
         /\ activityLog' = << >>
         /\ UNCHANGED <<tasks, nextId, now, inflight>>
  ELSE IF emp = Null
    THEN /\ last' = Response("Assign", id, emp, Null, 400,
                             "Employee ID is required")
         /\ activityLog' = << >>
         /\ UNCHANGED <<tasks, nextId, now, inflight>>
  ELSE IF UserFindByPk(Val(emp)) # Some("employee")
    THEN /\ last' = Response("Assign", id, emp, Null, 404,
                             "Employee not found or invalid")
         /\ activityLog' = << >>
         /\ UNCHANGED <<tasks, nextId, now, inflight>>
  ELSE LET task == tasks[id] IN
         /\ \E t1 \in now..MaxTime : \E t2 \in t1..MaxTime :
              /\ tasks' = [tasks EXCEPT
                             ![id] = AssignUpdates(task, Val(emp), t1, t2)]
              /\ now' = t2
         /\ activityLog' =
              logActivity(OrElse(actor, emp), "TASK_ASSIGNED", Some(id),
                          Some([ status |-> task.status,
                                 assignedTo |-> task.assignedTo ]),
                          Some([ status |-> "Pending", assignedTo |-> emp ]))
         /\ last' = Response("Assign", id, emp, Null, 200, "Task assigned")
         /\ UNCHANGED <<nextId, inflight>>

\* POST /api/tasks/:taskId/assign
Assign(id, emp, actor) ==
  IF emp = Null
    THEN /\ last' = Response("Assign", id, emp, Null, 400,
                             "Employee ID is required")
         /\ activityLog' = << >>
         /\ UNCHANGED <<tasks, nextId, now, inflight>>
  ELSE IF TaskFindByPk(id) = Null
    THEN /\ last' = Response("Assign", id, emp, Null, 404, "Task not found")
         /\ activityLog' = << >>
         /\ UNCHANGED <<tasks, nextId, now, inflight>>
  ELSE IF UserFindByPk(Val(emp)) # Some("employee")
    THEN /\ last' = Response("Assign", id, emp, Null, 404,
                             "Employee not found or invalid")
         /\ activityLog' = << >>
         /\ UNCHANGED <<tasks, nextId, now, inflight>>
  ELSE LET task == tasks[id] IN
         /\ \E t1 \in now..MaxTime : \E t2 \in t1..MaxTime :
              /\ tasks' = [tasks EXCEPT
                             ![id] = AssignUpdates(task, Val(emp), t1, t2)]
              /\ now' = t2
         /\ activityLog' =
              logActivity(OrElse(actor, emp), "TASK_ASSIGNED", Some(id),
                          Some([ status |-> task.status,
                                 assignedTo |-> task.assignedTo ]),
                          Some([ status |-> "Pending", assignedTo |-> emp ]))
         /\ last' = Response("Assign", id, emp, Null, 200, "Task assigned")
         /\ UNCHANGED <<nextId, inflight>>

\* ---------------------------------------------------------------- Unassign
\* The values POST /api/tasks/:taskId/unassign writes.
\* Unassign as it would be if it forgot to reset the status.
UnassignUpdates_KeepStatus(task) ==
  [ task EXCEPT !.assignedTo = Null, !.assignedDate = Null,
                !.assignedAtTimestamp = Null ]

UnassignUpdates(task) ==
  [ task EXCEPT !.assignedTo = Null, !.assignedDate = Null,
                !.assignedAtTimestamp = Null, !.status = "Unassigned" ]

\* Unassign as it would be if it refused a task that has no assignee.
Unassign_RejectsPooled(id, actor) ==
  IF TaskFindByPk(id) = Null
    THEN /\ last' = Response("Unassign", id, Null, Null, 404, "Task not found")
         /\ activityLog' = << >>
         /\ UNCHANGED <<tasks, nextId, now, inflight>>
  ELSE IF tasks[id].assignedTo = Null
    THEN /\ last' = Response("Unassign", id, Null, Null, 400,
                             "Task is not assigned")
         /\ activityLog' = << >>
         /\ UNCHANGED <<tasks, nextId, now, inflight>>
  ELSE LET task == tasks[id] IN
         /\ tasks' = [tasks EXCEPT ![id] = UnassignUpdates(task)]
         /\ activityLog' =
              logActivity(actor, "TASK_UNASSIGNED", Some(id),
                          Some([ status |-> task.status,
                                 assignedTo |-> task.assignedTo ]),
                          Some([ status |-> "Unassigned", assignedTo |-> Null ]))
         /\ last' = Response("Unassign", id, Null, Null, 200,
                             "Task unassigned and returned to task pool")
         /\ UNCHANGED <<nextId, now, inflight>>

\* POST /api/tasks/:taskId/unassign
Unassign(id, actor) ==
  IF TaskFindByPk(id) = Null
    THEN /\ last' = Response("Unassign", id, Null, Null, 404, "Task not found")
         /\ activityLog' = << >>
         /\ UNCHANGED <<tasks, nextId, now, inflight>>
  ELSE LET task == tasks[id] IN
         /\ tasks' = [tasks EXCEPT ![id] = UnassignUpdates(task)]
         /\ activityLog' =
              logActivity(actor, "TASK_UNASSIGNED", Some(id),
                          Some([ status |-> task.status,
                                 assignedTo |-> task.assignedTo ]),
                          Some([ status |-> "Unassigned", assignedTo |-> Null ]))
         /\ last' = Response("Unassign", id, Null, Null, 200,
                             "Task unassigned and returned to task pool")
         /\ UNCHANGED <<nextId, now, inflight>>

\* ---------------------------------------------------------------- Reassign
\* The values PUT /api/tasks/:taskId/reassign writes.
\* Reassign as it would be if it forced Pending, the way Assign does.
ReassignUpdates_ForcePending(task, newEmployeeId, t) ==
  [ task EXCEPT !.assignedTo = Some(newEmployeeId),
                !.assignedAtTimestamp = Some(t),
                !.status = "Pending" ]

ReassignUpdates(task, newEmployeeId, t) ==
  [ task EXCEPT !.assignedTo = Some(newEmployeeId),
                !.assignedAtTimestamp = Some(t),
                !.status = IF task.status = "Unassigned" THEN "Pending"
                           ELSE task.status ]

\* PUT /api/tasks/:taskId/reassign
Reassign(id, emp, actor) ==
  IF emp = Null
    THEN /\ last' = Response("Reassign", id, emp, Null, 400,
                             "New employee ID is required")
         /\ activityLog' = << >>
         /\ UNCHANGED <<tasks, nextId, now, inflight>>
  ELSE IF TaskFindByPk(id) = Null
    THEN /\ last' = Response("Reassign", id, emp, Null, 404, "Task not found")
         /\ activityLog' = << >>
         /\ UNCHANGED <<tasks, nextId, now, inflight>>
  ELSE IF UserFindByPk(Val(emp)) # Some("employee")
    THEN /\ last' = Response("Reassign", id, emp, Null, 404,
                             "New employee not found or invalid")
         /\ activityLog' = << >>
         /\ UNCHANGED <<tasks, nextId, now, inflight>>
  ELSE LET task == tasks[id] IN
         /\ \E t \in now..MaxTime :
              /\ tasks' = [tasks EXCEPT
                             ![id] = ReassignUpdates(task, Val(emp), t)]
              /\ now' = t
         /\ activityLog' =
              logActivity(actor, "TASK_REASSIGNED", Some(id),
                          Some([ assignedTo |-> task.assignedTo ]),
                          Some([ assignedTo |-> emp ]))
         /\ last' = Response("Reassign", id, emp, Null, 200, "Task reassigned")
         /\ UNCHANGED <<nextId, inflight>>

\* ------------------------------------------------------------- update task
\* The `updates` object PUT /api/tasks/:id builds from the request body; a
\* key the handler does not set is {}.  t is the instant new Date() returns.
\* The updates as they would be without the `!task.completedAt` and
\* `!task.verifiedAt` guards.
BuildUpdates_Restamp(task, body, t) ==
  LET changes == body.status # Null /\ Val(body.status) # task.status IN
  [ status |-> IF changes THEN body.status ELSE Null,
    completedAt |-> IF changes /\ body.status = Some("Completed")
                    THEN Some(t) ELSE Null,
    verifiedAt |-> IF changes /\ body.status = Some("Verified")
                   THEN Some(t) ELSE Null,
    notes |-> body.notes,
    manualDate |-> body.manualDate,
    manualTime |-> body.manualTime ]

\* The updates as they would be if the timestamps were set whenever the
\* body names Completed or Verified, outside the `status !== task.status`
\* block.
BuildUpdates_AlwaysStamp(task, body, t) ==
  LET changes == body.status # Null /\ Val(body.status) # task.status IN
  [ status |-> IF changes THEN body.status ELSE Null,
    completedAt |-> IF body.status = Some("Completed") THEN Some(t) ELSE Null,
    verifiedAt |-> IF body.status = Some("Verified") THEN Some(t) ELSE Null,
    notes |-> body.notes,
    manualDate |-> body.manualDate,
    manualTime |-> body.manualTime ]

\* The updates as they would be if the timestamps were set only on the
\* transitions of validTransitions (Completed from Pending, Verified from
\* Completed), while any status is still written.
BuildUpdates_StampOnTable(task, body, t) ==
  LET changes == body.status # Null /\ Val(body.status) # task.status IN
  [ status |-> IF changes THEN body.status ELSE Null,
    completedAt |-> IF changes /\ body.status = Some("Completed")
                       /\ task.completedAt = Null /\ task.status = "Pending"
                    THEN Some(t) ELSE Null,
    verifiedAt |-> IF changes /\ body.status = Some("Verified")
                      /\ task.verifiedAt = Null /\ task.status = "Completed"
                   THEN Some(t) ELSE Null,
    notes |-> body.notes,
    manualDate |-> body.manualDate,
    manualTime |-> body.manualTime ]

BuildUpdates(task, body, t) ==
  LET changes == body.status # Null /\ Val(body.status) # task.status IN
  [ status |-> IF changes THEN body.status ELSE Null,
    completedAt |-> IF changes /\ body.status = Some("Completed")
                       /\ task.completedAt = Null
                    THEN Some(t) ELSE Null,
    verifiedAt |-> IF changes /\ body.status = Some("Verified")
                      /\ task.verifiedAt = Null
                   THEN Some(t) ELSE Null,
    notes |-> body.notes,
    manualDate |-> body.manualDate,
    manualTime |-> body.manualTime ]

\* The validators as they would be without the isIn rule of Task.status.
UpdatesValid_Unchecked(updates) == TRUE

\* The validators task.update runs on the values it is given (Task.status:
\* isIn the ten statuses); a failure throws and nothing is written.
UpdatesValid(updates) == updates.status \subseteq Statuses

\* task.update(updates): the row with every key of updates overwritten.
ApplyUpdates(task, updates) ==
  [ task EXCEPT
      !.status = IF updates.status = Null THEN @ ELSE Val(updates.status),
      !.completedAt = IF updates.completedAt = Null THEN @
                      ELSE updates.completedAt,
      !.verifiedAt = IF updates.verifiedAt = Null THEN @
                     ELSE updates.verifiedAt,
      !.notes = IF updates.notes = Null THEN @ ELSE updates.notes,
      !.manualDate = IF updates.manualDate = Null THEN @
                     ELSE updates.manualDate,
      !.manualTime = IF updates.manualTime = Null THEN @
                     ELSE updates.manualTime ]

\* Whether building the updates reads the clock.
Stamps(updates) == updates.completedAt # Null \/ updates.verifiedAt # Null

\* PUT /api/tasks/:id
UpdateTask(id, body, actor) ==
  IF TaskFindByPk(id) = Null
    THEN /\ last' = Response("UpdateTask", id, Null, body.status, 404,
                             "Task not found")
         /\ activityLog' = << >>
         /\ UNCHANGED <<tasks, nextId, now, inflight>>
  ELSE LET task == tasks[id] IN
       \E t \in now..MaxTime :
         LET updates == BuildUpdates(task, body, t) IN
         /\ Stamps(updates) \/ t = now
         /\ now' = t
         /\ IF ~UpdatesValid(updates)
              THEN /\ last' = Response("UpdateTask", id, Null, body.status,
                                       400, "Failed to update task")
                   /\ activityLog' = << >>
                   /\ UNCHANGED <<tasks, nextId, inflight>>
              ELSE /\ tasks' = [tasks EXCEPT
                                  ![id] = ApplyUpdates(task, updates)]
                   /\ activityLog' =
                        logActivity(OrElse(actor, task.assignedTo),
                                    "TASK_UPDATED", Some(id),
                                    Some([ status |-> task.status,
                                           notes |-> task.notes,
                                           manualDate |-> task.manualDate,
                                           manualTime |-> task.manualTime,
                                           completedAt |-> task.completedAt,
                                           verifiedAt |-> task.verifiedAt ]),
                                    Some(updates))
                   /\ last' = Response("UpdateTask", id, Null, body.status,
                                       200, "Task updated successfully")
                   /\ UNCHANGED <<nextId, inflight>>

\* ------------------------------------------------------------- delete task
\* The handler as it would be on a table without AUTOINCREMENT, where the
\* id of the row with the largest id is handed out again once it is gone.
DeleteTask_ReleasesId(id, actor) ==
  IF TaskFindByPk(id) = Null
    THEN /\ last' = Response("DeleteTask", id, Null, Null, 404,
                             "Task not found")
         /\ activityLog' = << >>
         /\ UNCHANGED <<tasks, nextId, now, inflight>>
  ELSE LET task == tasks[id] IN
         /\ tasks' = [i \in DOMAIN tasks \ {id} |-> tasks[i]]
         /\ nextId' = IF id = nextId - 1 THEN id ELSE nextId
         /\ activityLog' =
              logActivity(actor, "TASK_DELETED", Some(id),
                          Some([ id |-> id, title |-> task.title,
                                 status |-> task.status,
                                 assignedTo |-> task.assignedTo ]),
                          Null)
         /\ last' = Response("DeleteTask", id, Null, Null, 200,
                             "Task deleted successfully")
         /\ UNCHANGED <<now, inflight>>

\* DELETE /api/tasks/:id
DeleteTask(id, actor) ==
  IF TaskFindByPk(id) = Null
    THEN /\ last' = Response("DeleteTask", id, Null, Null, 404,
                             "Task not found")
         /\ activityLog' = << >>
         /\ UNCHANGED <<tasks, nextId, now, inflight>>
  ELSE LET task == tasks[id] IN
         /\ tasks' = [i \in DOMAIN tasks \ {id} |-> tasks[i]]
         /\ activityLog' =
              logActivity(actor, "TASK_DELETED", Some(id),
                          Some([ id |-> id, title |-> task.title,
                                 status |-> task.status,
                                 assignedTo |-> task.assignedTo ]),
                          Null)
         /\ last' = Response("DeleteTask", id, Null, Null, 200,
                             "Task deleted successfully")
         /\ UNCHANGED <<nextId, now, inflight>>

\* ------------------------------------------------------------- create task
\* POST /api/tasks.  After its two validations the handler builds taskData
\* with `clientName: clientName || null`; clientName is not among the names
\* it takes from the body and is declared nowhere in its scope, so the
\* expression throws a ReferenceError, Task.create is never reached and the
\* catch block answers 400.
CreateTask(title, pincode) ==
  /\ last' =
       IF title = Null
         THEN Response("CreateTask", 0, Null, Null, 400,
                       "Task title/Case ID is required")
       ELSE IF pincode # Null /\ ~IsSixDigits(Val(pincode))
         THEN Response("CreateTask", 0, Null, Null, 400,
                       "Pincode must be exactly 6 digits")
       ELSE Response("CreateTask", 0, Null, Null, 400,
                     "Failed to create task: clientName is not defined")
  /\ activityLog' = << >>
  /\ UNCHANGED <<tasks, nextId, now, inflight>>

\* ------------------------------------------------------------- bulk upload
\* The number of error lines a bulk upload returns at most.
ErrorCap == 20

\* A decoded spreadsheet row, after the header aliases are resolved:
\* caseId is row.CaseID || row.Title || row.title || row.caseId and pincode
\* is row.Pincode || row.pincode || row.PINCODE, {} when none is set.
RowError(rowNumber, reason, got) ==
  [ row |-> rowNumber, reason |-> reason, got |-> got ]

\* A cell of the decoded row, {} when the sheet has no such column or the
\* cell is empty.  A text cell is a tuple of characters and a numeric cell
\* is a number, as the sheet decoder hands them over.
Col(row, name) == IF name \in DOMAIN row THEN row[name] ELSE Null

\* `cell || null` for a text cell and for a numeric cell
TextOrNull(cell) == IF cell # Null /\ Val(cell) # <<>> THEN cell ELSE Null

NumberOrNull(cell) == IF cell # Null /\ Val(cell) # Zero THEN cell ELSE Null

\* The validators of Task.create on a row that passed the two checks, and
\* the row it inserts; caught per row.
TaskCreate(rowNumber, title, pincodeStr, mapUrl, latitude, longitude) ==
  IF title = <<>>
    THEN [ ok |-> FALSE,
           error |-> RowError(rowNumber,
                              "Validation notEmpty on title failed", <<>>) ]
  ELSE IF latitude # Null /\ ~InRange(Val(latitude), 90)
    THEN [ ok |-> FALSE,
           error |-> RowError(rowNumber,
                              IF Val(latitude).neg
                                THEN "Validation min on latitude failed"
                                ELSE "Validation max on latitude failed",
                              <<>>) ]
  ELSE IF longitude # Null /\ ~InRange(Val(longitude), 180)
    THEN [ ok |-> FALSE,
           error |-> RowError(rowNumber,
                              IF Val(longitude).neg
                                THEN "Validation min on longitude failed"
                                ELSE "Validation max on longitude failed",
                              <<>>) ]
  ELSE [ ok |-> TRUE,
         task |-> [ TaskRow(title, Some(pincodeStr)) EXCEPT
                      !.mapUrl = mapUrl,
                      !.latitude = latitude,
                      !.longitude = longitude ] ]

\* The coordinates handed to Task.create: those of the extracted pair when
\* there is one, else those of the row, each through
\* `latitude ? parseFloat(latitude) : null`.
WithCoords(rowNumber, title, pincodeStr, mapUrl, rowLat, rowLng, coords) ==
  TaskCreate(rowNumber, title, pincodeStr, mapUrl,
             NumberOrNull(IF coords # Null THEN Some(Val(coords).latitude)
                          ELSE rowLat),
             NumberOrNull(IF coords # Null THEN Some(Val(coords).longitude)
                          ELSE rowLng))

\* if (mapUrl && (!latitude || !longitude)) coords = extractCoordinates(mapUrl)
Located(rowNumber, title, pincodeStr, mapUrl, rowLat, rowLng) ==
  WithCoords(rowNumber, title, pincodeStr, mapUrl, rowLat, rowLng,
             IF mapUrl # Null /\ (rowLat = Null \/ rowLng = Null)
               THEN extractCoordinates(mapUrl) ELSE Null)

\* The optional fields of a row that passed the two checks, and Task.create.
CreateFromRow(row, rowNumber, title, pincodeStr) ==
  Located(rowNumber, title, pincodeStr,
          TextOrNull(Col(row, "mapUrl")),
          NumberOrNull(Col(row, "latitude")),
          NumberOrNull(Col(row, "longitude")))

\* The body of the loop as it would be if it examined the pincode before
\* the case id.
ProcessRow_PincodeFirst(row, i) ==
  LET rowNumber == i + 2 IN
  IF row.pincode = Null
    THEN [ ok |-> FALSE,
           error |-> RowError(rowNumber, "Pincode is required", <<>>) ]
  ELSE IF ~IsSixDigits(Trim(Val(row.pincode)))
    THEN [ ok |-> FALSE,
           error |-> RowError(rowNumber, "Pincode must be exactly 6 digits",
                              Trim(Val(row.pincode))) ]
  ELSE IF row.caseId = Null
    THEN [ ok |-> FALSE,
           error |-> RowError(rowNumber, "CaseID/Title is required", <<>>) ]
  ELSE CreateFromRow(row, rowNumber, Trim(Val(row.caseId)),
                     Trim(Val(row.pincode)))

\* The body of the loop as it would be if rows were numbered from 1, with
\* no allowance for the header row.
ProcessRow_NoHeader(row, i) ==
  LET rowNumber == i + 1 IN
  IF row.caseId = Null
    THEN [ ok |-> FALSE,
           error |-> RowError(rowNumber, "CaseID/Title is required", <<>>) ]
  ELSE IF row.pincode = Null
    THEN [ ok |-> FALSE,
           error |-> RowError(rowNumber, "Pincode is required", <<>>) ]
  ELSE LET pincodeStr == Trim(Val(row.pincode))
           title == Trim(Val(row.caseId))
       IN
       IF ~IsSixDigits(pincodeStr)
         THEN [ ok |-> FALSE,
                error |-> RowError(rowNumber,
                                   "Pincode must be exactly 6 digits",
                                   pincodeStr) ]
       ELSE CreateFromRow(row, rowNumber, title, pincodeStr)

\* The body of the loop for the record at 0-based index i: either the task
\* row Task.create inserts or the error line pushed to `errors`.
ProcessRow(row, i) ==
  LET rowNumber == i + 2 IN
  IF row.caseId = Null
    THEN [ ok |-> FALSE,
           error |-> RowError(rowNumber, "CaseID/Title is required", <<>>) ]
  ELSE IF row.pincode = Null
    THEN [ ok |-> FALSE,
           error |-> RowError(rowNumber, "Pincode is required", <<>>) ]
  ELSE LET pincodeStr == Trim(Val(row.pincode))
           title == Trim(Val(row.caseId))
       IN
       IF ~IsSixDigits(pincodeStr)
         THEN [ ok |-> FALSE,
                error |-> RowError(rowNumber,
                                   "Pincode must be exactly 6 digits",
                                   pincodeStr) ]
       ELSE CreateFromRow(row, rowNumber, title, pincodeStr)

\* The loop as it would be if a failing row ended it (break for continue).
RECURSIVE ProcessRows_StopsAtError(_, _)
ProcessRows_StopsAtError(data, i) ==
  IF i >= Len(data) THEN [ created |-> <<>>, errors |-> <<>> ]
  ELSE LET r == ProcessRow(data[i + 1], i) IN
       IF r.ok
         THEN LET rest == ProcessRows_StopsAtError(data, i + 1)
              IN [ created |-> <<r.task>> \o rest.created,
                   errors |-> rest.errors ]
         ELSE [ created |-> <<>>, errors |-> <<r.error>> ]

\* The loop as it would be if, once a row has failed, every later row were
\* rejected unread.
RECURSIVE ProcessRows_Poisoned(_, _)
ProcessRows_Poisoned(data, i) ==
  IF i >= Len(data) THEN [ created |-> <<>>, errors |-> <<>> ]
  ELSE LET r == ProcessRow(data[i + 1], i) IN
       IF r.ok
         THEN LET rest == ProcessRows_Poisoned(data, i + 1)
              IN [ created |-> <<r.task>> \o rest.created,
                   errors |-> rest.errors ]
         ELSE [ created |-> <<>>,
                errors |-> <<r.error>> \o
                  [ k \in 1..(Len(data) - i - 1) |->
                      RowError(i + k + 2, "Batch aborted", <<>>) ] ]

\* The loop over data from index i on: the tasks created and the error
\* lines, both in row order.
RECURSIVE ProcessRows(_, _)
ProcessRows(data, i) ==
  IF i >= Len(data) THEN [ created |-> <<>>, errors |-> <<>> ]
  ELSE LET r == ProcessRow(data[i + 1], i)
           rest == ProcessRows(data, i + 1)
       IN IF r.ok
            THEN [ created |-> <<r.task>> \o rest.created,
                   errors |-> rest.errors ]
            ELSE [ created |-> rest.created,
                   errors |-> <<r.error>> \o rest.errors ]

Min(a, b) == IF a <= b THEN a ELSE b

\* The JSON body as it would be if the flag were raised at ErrorCap lines
\* already (>= for >).
BulkReport_FlagAtCap(result) ==
  [ successCount |-> Len(result.created),
    errorCount |-> Len(result.errors),
    errors |-> IF Len(result.errors) > 0
               THEN Some(SubSeq(result.errors, 1,
                                Min(ErrorCap, Len(result.errors))))
               ELSE Null,
    hasMoreErrors |-> Len(result.errors) >= ErrorCap ]

\* The JSON body of the 200 answer of a bulk upload.
BulkReport(result) ==
  [ successCount |-> Len(result.created),
    errorCount |-> Len(result.errors),
    errors |-> IF Len(result.errors) > 0
               THEN Some(SubSeq(result.errors, 1,
                                Min(ErrorCap, Len(result.errors))))
               ELSE Null,
    hasMoreErrors |-> Len(result.errors) > ErrorCap ]

\* The handler as it would be without its test for a sheet without rows.
BulkUpload_NoEmptyCheck(ids, file, data, actor) ==
  IF file = "none"
    THEN /\ last' = Response("BulkUpload", 0, Null, Null, 400,
                             "No file uploaded")
         /\ activityLog' = << >>
         /\ UNCHANGED <<tasks, nextId, now, inflight>>
  ELSE IF file = "unreadable"
    THEN /\ last' = [ Response("BulkUpload", 0, Null, Null, 500,
                               "Bulk upload failed")
                      EXCEPT !.upload = Cleanup(Received(<< >>)) ]
         /\ activityLog' = << >>
         /\ UNCHANGED <<tasks, nextId, now, inflight>>
  ELSE LET result == ProcessRows(data, 0)
           n == Len(result.created)
       IN
         /\ (nextId..(nextId + n - 1)) \subseteq ids
         /\ tasks' = [ k \in DOMAIN tasks \cup (nextId..(nextId + n - 1)) |->
                         IF k \in DOMAIN tasks THEN tasks[k]
                         ELSE result.created[k - nextId + 1] ]
         /\ nextId' = nextId + n
         /\ activityLog' =
              logActivity(actor, "BULK_UPLOAD_COMPLETED", Null,
                          Some([ totalRows |-> Len(data) ]),
                          Some([ successCount |-> n,
                                 errorCount |-> Len(result.errors) ]))
         /\ last' = [ Response("BulkUpload", 0, Null, Null, 200,
                               "tasks uploaded as unassigned")
                      EXCEPT !.report = BulkReport(result),
                             !.upload = Unlink(Received(data)) ]
         /\ UNCHANGED <<now, inflight>>

\* POST /api/tasks/bulk-upload.  file is "none" when the request carries no
\* file, "unreadable" when xlsx.readFile throws, "ok" otherwise.  ids are the
\* primary keys the table can still hand out.
BulkUpload(ids, file, data, actor) ==
  IF file = "none"
    THEN /\ last' = Response("BulkUpload", 0, Null, Null, 400,
                             "No file uploaded")
         /\ activityLog' = << >>
         /\ UNCHANGED <<tasks, nextId, now, inflight>>
  ELSE IF file = "unreadable"
    THEN /\ last' = [ Response("BulkUpload", 0, Null, Null, 500,
                               "Bulk upload failed")
                      EXCEPT !.upload = Cleanup(Received(<< >>)) ]
         /\ activityLog' = << >>
         /\ UNCHANGED <<tasks, nextId, now, inflight>>
  ELSE IF Len(data) = 0
    THEN /\ last' = [ Response("BulkUpload", 0, Null, Null, 400,
                               "Excel file is empty or invalid format")
                      EXCEPT !.upload = Unlink(Received(data)) ]
         /\ activityLog' = << >>
         /\ UNCHANGED <<tasks, nextId, now, inflight>>
  ELSE LET result == ProcessRows(data, 0)
           n == Len(result.created)
       IN
         /\ (nextId..(nextId + n - 1)) \subseteq ids
         /\ tasks' = [ k \in DOMAIN tasks \cup (nextId..(nextId + n - 1)) |->
                         IF k \in DOMAIN tasks THEN tasks[k]
                         ELSE result.created[k - nextId + 1] ]
         /\ nextId' = nextId + n
         /\ activityLog' =
              logActivity(actor, "BULK_UPLOAD_COMPLETED", Null,
                          Some([ totalRows |-> Len(data) ]),
                          Some([ successCount |-> n,
                                 errorCount |-> Len(result.errors) ]))
         /\ last' = [ Response("BulkUpload", 0, Null, Null, 200,
                               "tasks uploaded as unassigned")
                      EXCEPT !.report = BulkReport(result),
                             !.upload = Unlink(Received(data)) ]
         /\ UNCHANGED <<now, inflight>>

\* ------------------------------------------------------------------ inputs
\* ids of the :taskId / :id path parameter; the id names no row before the
\* row is imported and after it is deleted
TaskIds == RowIds

\* employeeId / newEmployeeId of a request body: missing, the admin, the two
\* employees, and the id of no user
EmployeeInputs == { Null, Some(1), Some(2), Some(3), Some(4) }

\* adminId / userId of a request body: missing, or the id of no user
ActorInputs == { Null, Some(4) }

\* status of a PUT /api/tasks/:id body: missing, statuses of the enum, and a
\* value outside it
StatusInputs ==
  { Null, Some("Unassigned"), Some("Pending"), Some("Completed"),
    Some("Verified"), Some("Not Picking"), Some("Archived") }

\* notes, manualDate and manualTime of a PUT /api/tasks/:id body
NoteInputs ==
  { [ notes |-> Null, manualDate |-> Null, manualTime |-> Null ],
    [ notes |-> Some("called"), manualDate |-> Some("2024-01-02"),
      manualTime |-> Some("10:30") ] }

Bodies ==
  { [ status |-> s, notes |-> n.notes, manualDate |-> n.manualDate,
      manualTime |-> n.manualTime ] : s \in StatusInputs, n \in NoteInputs }

\* title of a POST /api/tasks body
TitleInputs == { Null, Some(<<"C", "1">>) }

\* pincode of a POST /api/tasks body
PincodeInputs ==
  { Null, Some(<<"1", "2", "3", "4", "5">>),
    Some(<<"5", "6", "0", "0", "0", "1">>) }

\* a spreadsheet row every column of which is well formed
GoodRow ==
  [ caseId |-> Some(<<"C", "1">>),
    pincode |-> Some(<<" ", "5", "6", "0", "0", "0", "1">>) ]

\* a spreadsheet row with a five-digit pincode
ShortPinRow ==
  [ caseId |-> Some(<<"C", "2">>),
    pincode |-> Some(<<"1", "2", "3", "4", "5">>) ]

\* a spreadsheet row whose case id is blank
BlankRow ==
  [ caseId |-> Some(<<" ">>),
    pincode |-> Some(<<"5", "6", "0", "0", "0", "1">>) ]

\* Decoded spreadsheets: empty, one good row, a bad row before a good one,
\* bad rows only.
Datasets ==
  { << >>, <<GoodRow>>, <<ShortPinRow, GoodRow>>, <<BlankRow, ShortPinRow>> }

\* ------------------------------------------------------------ specification
\* The slots of requests that run at the same time, and the empty slot.
Requests == { "r1", "r2" }

Idle == [ op |-> "none" ]

Init ==
  /\ tasks = << >>
  /\ nextId = 1
  /\ now = 1
  /\ last = Response("none", 0, Null, Null, 0, "")
  /\ activityLog = << >>
  /\ inflight = [ r \in Requests |-> Idle ]

Next ==
  \/ \E id \in TaskIds, emp \in EmployeeInputs, actor \in ActorInputs :
       Assign(id, emp, actor)
  \/ \E id \in TaskIds, actor \in ActorInputs : Unassign(id, actor)
  \/ \E id \in TaskIds, emp \in EmployeeInputs, actor \in ActorInputs :
       Reassign(id, emp, actor)
  \/ \E id \in TaskIds, body \in Bodies, actor \in ActorInputs :
       UpdateTask(id, body, actor)
  \/ \E id \in TaskIds, actor \in ActorInputs : DeleteTask(id, actor)
  \/ \E title \in TitleInputs, pincode \in PincodeInputs :
       CreateTask(title, pincode)
  \/ \E data \in Datasets, actor \in ActorInputs :
       BulkUpload(RowIds, "ok", data, actor)
  \/ \E file \in {"none", "unreadable"} :
       BulkUpload(RowIds, file, << >>, Null)

Spec == Init /\ [][Next]_vars

\* ------------------------------------------------- the import pipeline alone
\* The longest spreadsheet whose rows are enumerated.
MaxRows == 2

\* How many error lines beyond ErrorCap the longest spreadsheet of rejected
\* rows produces.
MaxOver == 2

\* a row with no case id and a five-digit pincode
NoCaseRow ==
  [ caseId |-> Null, pincode |-> Some(<<"1", "2", "3", "4", "5">>) ]

\* a row with neither case id nor pincode
EmptyRow == [ caseId |-> Null, pincode |-> Null ]

\* a row with a case id and no pincode
NoPinRow == [ caseId |-> Some(<<"C", "3">>), pincode |-> Null ]

\* a well-formed row of a sheet that also has the columns AssignedTo and
\* Status, which the handler never reads
AssignedRow ==
  [ caseId |-> Some(<<"C", "4", " ">>),
    pincode |-> Some(<<"5", "6", "0", "0", "0", "1">>),
    assignedTo |-> Some(2), status |-> Some("Pending") ]

RowKinds == { GoodRow, ShortPinRow, NoCaseRow, AssignedRow }

\* The sequences over S of length 0..n.
SeqsUpTo(S, n) == UNION { [1..k -> S] : k \in 0..n }

\* n well-formed rows, except that the third has a five-digit pincode.
Batch(n) == [ k \in 1..n |-> IF k = 3 THEN ShortPinRow ELSE GoodRow ]

\* n rows none of which passes the validation.
Rejects(n) == [ k \in 1..n |-> IF k % 2 = 1 THEN ShortPinRow ELSE NoPinRow ]

\* Decoded spreadsheets: every sheet of up to MaxRows rows, sheets with a
\* row that fails in Task.create, lacks both columns or lacks the pincode,
\* sheets with one bad row in third place, and sheets with about ErrorCap
\* rejected rows.
ImportDatasets ==
  SeqsUpTo(RowKinds, MaxRows)
    \cup { <<BlankRow, GoodRow>>, <<EmptyRow, AssignedRow>>,
           <<NoPinRow, GoodRow>> }
    \cup { Batch(n) : n \in 3..(MaxRows + 1) }
    \cup { Rejects(n) : n \in (ErrorCap - 1)..(ErrorCap + MaxOver) }

\* the primary keys the table hands out to imported rows
ImportIds == 1..(MaxRows + 1)

ImportNext ==
  \E data \in ImportDatasets, actor \in ActorInputs :
    BulkUpload(ImportIds, "ok", data, actor)

ImportSpec == Init /\ [][ImportNext]_vars

\* ------------------------------------------- one task among imported tasks
\* How many tasks the table comes to hold.
MaxStored == 2

\* the primary keys the table hands out
StoredIds == 1..MaxStored

\* Decoded spreadsheets: those above, and one of a sheet with the columns
\* AssignedTo and Status.
StoreDatasets == Datasets \cup { <<AssignedRow>> }

\* the query parameters of GET /api/tasks
Queries ==
  [ role : { "none", "admin", "employee" }, userId : { Null, Some(2) },
    status : { Null, Some("all"), Some("Pending"), Some("Unassigned") },
    employeeId : { Null, Some(2) } ]

\* The requests of Next on the task with the first id, with one body each
\* besides the empty one, while imports add further tasks.
StoreNext ==
  \/ \E id \in TaskIds, emp \in { Null, Some(2) } : Assign(id, emp, Null)
  \/ \E id \in TaskIds : Unassign(id, Null)
  \/ \E id \in TaskIds, emp \in { Null, Some(3) } : Reassign(id, emp, Null)
  \/ \E id \in TaskIds :
       UpdateTask(id, [ status |-> Some("Completed"), notes |-> Null,
                        manualDate |-> Null, manualTime |-> Null ], Null)
  \/ \E id \in TaskIds : DeleteTask(id, Null)
  \/ \E data \in StoreDatasets : BulkUpload(StoredIds, "ok", data, Null)

StoreSpec == Init /\ [][StoreNext]_vars

\* ------------------------------------------------ imports with locations
\* Map links of the MapURL column.
\* a place link: .../@12.5,77.5z
UrlAt == <<"m", "/", "@", "1", "2", ".", "5", ",", "7", "7", ".", "5", "z">>

\* a query link: ...?q=-3.25,4.0
UrlQuery == <<"m", "?", "q", "=", "-", "3", ".", "2", "5", ",", "4", ".", "0">>

\* both forms in one link, the ?q= pair first
UrlBoth == <<"?", "q", "=", "1", ".", "5", ",", "2", ".", "5", "@", "3", ".", "5", ",", "4", ".", "5">>

\* an @ that no pair follows, then a pair
UrlLate == <<"@", "x", "@", "0", "1", ".", "5", "0", ",", "2", ".", "5">>

\* a pair whose latitude is off the globe
UrlFar == <<"@", "9", "1", ".", "5", ",", "2", ".", "5">>

\* whole numbers: neither pattern matches
UrlBare == <<"@", "1", "2", ",", "7", "7">>

\* no coordinates at all
UrlPlain == <<"m", "a", "p", "s">>

UrlInputs == { UrlAt, UrlQuery, UrlBoth, UrlLate, UrlFar, UrlBare, UrlPlain }

\* 9.5 and 8.5, the numbers of the Latitude and Longitude cells
NineAndHalf == [ neg |-> FALSE, whole |-> 9, frac |-> <<"5">> ]

EightAndHalf == [ neg |-> FALSE, whole |-> 8, frac |-> <<"5">> ]

\* Rows that pass the two checks, with every combination of a map link
\* (none, empty, one of the links above), a latitude (none, 0, 9.5) and a
\* longitude (none, 0, 8.5).
CoordRows ==
  { [ caseId |-> GoodRow.caseId, pincode |-> GoodRow.pincode,
      mapUrl |-> u, latitude |-> la, longitude |-> lo ] :
      u \in { Null, Some(<<>>) } \cup { Some(l) : l \in UrlInputs },
      la \in { Null, Some(Zero), Some(NineAndHalf) },
      lo \in { Null, Some(Zero), Some(EightAndHalf) } }

\* sheets of one such row
CoordDatasets == { <<row>> : row \in CoordRows }

\* Imports of such sheets into the table of one row: each request stores
\* its row, or is answered with the row's error once the row is taken.
CoordNext == \E data \in CoordDatasets : BulkUpload(RowIds, "ok", data, Null)

CoordSpec == Init /\ [][CoordNext]_vars

\* ---------------------------------------------------- interleaved requests
\* A handler awaits Task.findByPk, later awaits task.update, and holds no
\* transaction or lock, so the statements of other requests run in between.
\* Each handler is split there: its Read step takes the row as findByPk
\* returns it (or answers at once when a check before the update fails),
\* its Write step builds the values from that row and the clock, runs the
\* UPDATE, writes the ActivityLog row and answers.  The values are built in
\* the turn that issues the UPDATE and the one connection runs statements
\* in the order they were issued, so the clock is read as part of Write.

\* The request a Read step leaves in its slot.
Started(op, id, emp, body, actor) ==
  [ op |-> op, id |-> id, emp |-> emp, body |-> body, actor |-> actor,
    task |-> tasks[id] ]

\* UPDATE Tasks SET <columns> WHERE id = ...: the row as it is now with the
\* given columns taken from values; task.update(values) names the keys of
\* values as the columns.
Overlay(row, values, columns) ==
  [ f \in DOMAIN row |-> IF f \in columns THEN values[f] ELSE row[f] ]

\* Whether task.update issues its UPDATE: save() returns without a query
\* when no value differs from the row the instance was read as.
Saves(task, values, columns) == \E f \in columns : values[f] # task[f]

NoBody ==
  [ status |-> Null, notes |-> Null, manualDate |-> Null, manualTime |-> Null ]

AssignColumns == { "assignedTo", "assignedDate", "assignedAtTimestamp", "status" }

ReassignColumns == { "assignedTo", "assignedAtTimestamp", "status" }

\* the keys of the `updates` object of PUT /api/tasks/:id
UpdateColumns(updates) == { f \in DOMAIN updates : updates[f] # Null }

AssignRead(r, id, emp, actor) ==
  /\ inflight[r].op = "none"
  /\ IF \/ emp = Null
        \/ TaskFindByPk(id) = Null
        \/ UserFindByPk(Val(emp)) # Some("employee")
       THEN Assign(id, emp, actor)
       ELSE /\ inflight' =
                 [inflight EXCEPT ![r] = Started("Assign", id, emp, NoBody, actor)]
            /\ UNCHANGED <<tasks, nextId, now, last, activityLog>>

\* The UPDATE as it would be if it named only the columns whose value
\* differs from the row the request read.
AssignWrite_ChangedOnly(r) ==
  /\ inflight[r].op = "Assign"
  /\ LET req == inflight[r] IN
     \E t1 \in now..MaxTime : \E t2 \in t1..MaxTime :
       LET values == AssignUpdates(req.task, Val(req.emp), t1, t2) IN
       /\ tasks' = [tasks EXCEPT
                      ![req.id] =
                        Overlay(@, values,
                                { f \in AssignColumns :
                                    values[f] # req.task[f] })]
       /\ now' = t2
       /\ activityLog' =
            logActivity(OrElse(req.actor, req.emp), "TASK_ASSIGNED",
                        Some(req.id),
                        Some([ status |-> req.task.status,
                               assignedTo |-> req.task.assignedTo ]),
                        Some([ status |-> "Pending", assignedTo |-> req.emp ]))
       /\ last' = Response("Assign", req.id, req.emp, Null, 200,
                           "Task assigned")
       /\ inflight' = [inflight EXCEPT ![r] = Idle]
       /\ UNCHANGED nextId

\* The timestamp is a new Date, so the instance has changed and is saved.
AssignWrite(r) ==
  /\ inflight[r].op = "Assign"
  /\ LET req == inflight[r] IN
     \E t1 \in now..MaxTime : \E t2 \in t1..MaxTime :
       LET values == AssignUpdates(req.task, Val(req.emp), t1, t2) IN
       /\ tasks' = [tasks EXCEPT
                      ![req.id] = Overlay(@, values, AssignColumns)]
       /\ now' = t2
       /\ activityLog' =
            logActivity(OrElse(req.actor, req.emp), "TASK_ASSIGNED",
                        Some(req.id),
                        Some([ status |-> req.task.status,
                               assignedTo |-> req.task.assignedTo ]),
                        Some([ status |-> "Pending", assignedTo |-> req.emp ]))
       /\ last' = Response("Assign", req.id, req.emp, Null, 200,
                           "Task assigned")
       /\ inflight' = [inflight EXCEPT ![r] = Idle]
       /\ UNCHANGED nextId

UnassignRead(r, id, actor) ==
  /\ inflight[r].op = "none"
  /\ IF TaskFindByPk(id) = Null
       THEN Unassign(id, actor)
       ELSE /\ inflight' =
                 [inflight EXCEPT ![r] = Started("Unassign", id, Null, NoBody, actor)]
            /\ UNCHANGED <<tasks, nextId, now, last, activityLog>>

UnassignWrite(r) ==
  /\ inflight[r].op = "Unassign"
  /\ LET req == inflight[r]
         values == UnassignUpdates(req.task)
     IN
       /\ tasks' = IF Saves(req.task, values, AssignColumns)
                     THEN [tasks EXCEPT
                             ![req.id] = Overlay(@, values, AssignColumns)]
                     ELSE tasks
       /\ activityLog' =
            logActivity(req.actor, "TASK_UNASSIGNED", Some(req.id),
                        Some([ status |-> req.task.status,
                               assignedTo |-> req.task.assignedTo ]),
                        Some([ status |-> "Unassigned", assignedTo |-> Null ]))
       /\ last' = Response("Unassign", req.id, Null, Null, 200,
                           "Task unassigned and returned to task pool")
       /\ inflight' = [inflight EXCEPT ![r] = Idle]
       /\ UNCHANGED <<nextId, now>>

ReassignRead(r, id, emp, actor) ==
  /\ inflight[r].op = "none"
  /\ IF \/ emp = Null
        \/ TaskFindByPk(id) = Null
        \/ UserFindByPk(Val(emp)) # Some("employee")
       THEN Reassign(id, emp, actor)
       ELSE /\ inflight' =
                 [inflight EXCEPT ![r] = Started("Reassign", id, emp, NoBody, actor)]
            /\ UNCHANGED <<tasks, nextId, now, last, activityLog>>

ReassignWrite(r) ==
  /\ inflight[r].op = "Reassign"
  /\ LET req == inflight[r] IN
     \E t \in now..MaxTime :
       LET values == ReassignUpdates(req.task, Val(req.emp), t) IN
       /\ tasks' = [tasks EXCEPT
                      ![req.id] = Overlay(@, values, ReassignColumns)]
       /\ now' = t
       /\ activityLog' =
            logActivity(req.actor, "TASK_REASSIGNED", Some(req.id),
                        Some([ assignedTo |-> req.task.assignedTo ]),
                        Some([ assignedTo |-> req.emp ]))
       /\ last' = Response("Reassign", req.id, req.emp, Null, 200,
                           "Task reassigned")
       /\ inflight' = [inflight EXCEPT ![r] = Idle]
       /\ UNCHANGED nextId

UpdateRead(r, id, body, actor) ==
  /\ inflight[r].op = "none"
  /\ IF TaskFindByPk(id) = Null
       THEN UpdateTask(id, body, actor)
       ELSE /\ inflight' =
                 [inflight EXCEPT ![r] = Started("UpdateTask", id, Null, body, actor)]
            /\ UNCHANGED <<tasks, nextId, now, last, activityLog>>

UpdateWrite(r) ==
  /\ inflight[r].op = "UpdateTask"
  /\ LET req == inflight[r] IN
     \E t \in now..MaxTime :
       LET updates == BuildUpdates(req.task, req.body, t)
           values == ApplyUpdates(req.task, updates)
           columns == UpdateColumns(updates)
       IN
       /\ Stamps(updates) \/ t = now
       /\ now' = t
       /\ inflight' = [inflight EXCEPT ![r] = Idle]
       /\ IF ~UpdatesValid(updates)
            THEN /\ last' = Response("UpdateTask", req.id, Null,
                                     req.body.status, 400,
                                     "Failed to update task")
                 /\ activityLog' = << >>
                 /\ UNCHANGED <<tasks, nextId>>
            ELSE /\ tasks' = IF Saves(req.task, values, columns)
                               THEN [tasks EXCEPT
                                       ![req.id] = Overlay(@, values, columns)]
                               ELSE tasks
                 /\ activityLog' =
                      logActivity(OrElse(req.actor, req.task.assignedTo),
                                  "TASK_UPDATED", Some(req.id),
                                  Some([ status |-> req.task.status,
                                         notes |-> req.task.notes,
                                         manualDate |-> req.task.manualDate,
                                         manualTime |-> req.task.manualTime,
                                         completedAt |-> req.task.completedAt,
                                         verifiedAt |-> req.task.verifiedAt ]),
                                  Some(updates))
                 /\ last' = Response("UpdateTask", req.id, Null,
                                     req.body.status, 200,
                                     "Task updated successfully")
                 /\ UNCHANGED nextId

\* the body of the racing PUT /api/tasks/:id requests
CompletedBody == [ NoBody EXCEPT !.status = Some("Completed") ]

\* One imported task and two slots of requests on it, with no adminId.
RaceNext ==
  \/ BulkUpload(RowIds, "ok", <<GoodRow>>, Null)
  \/ \E r \in Requests, id \in TaskIds, emp \in { Some(2), Some(3) } :
       AssignRead(r, id, emp, Null)
  \/ \E r \in Requests : AssignWrite(r)
  \/ \E r \in Requests, id \in TaskIds : UnassignRead(r, id, Null)
  \/ \E r \in Requests : UnassignWrite(r)
  \/ \E r \in Requests, id \in TaskIds : ReassignRead(r, id, Some(3), Null)
  \/ \E r \in Requests : ReassignWrite(r)
  \/ \E r \in Requests, id \in TaskIds : UpdateRead(r, id, CompletedBody, Null)
  \/ \E r \in Requests : UpdateWrite(r)

RaceSpec == Init /\ [][RaceNext]_vars

\* ------------------------------------------------------------------ claims
\* The row of the ActivityLog the latest request wrote, when userId is valid.
Logged(action) == Len(activityLog) = 1 /\ activityLog[1].action = action

Employees == { id \in DOMAIN Users : Users[id] = "employee" }

\* C1: in every reachable state every stored task has status "Unassigned"
\* if and only if its assignedTo is null.
StatusMatchesAssignee ==
  \A id \in DOMAIN tasks :
    (tasks[id].status = "Unassigned") <=> (tasks[id].assignedTo = Null)

\* C2: a successful Assign, Unassign or Reassign on a task whose status is
\* "Unassigned" exactly when it has no assignee writes, with its one update,
\* a task for which that is true again.
AssignmentOpsKeepPairing ==
  [][ ( /\ last'.op \in {"Assign", "Unassign", "Reassign"}
        /\ last'.code = 200
        /\ (tasks[last'.id].status = "Unassigned")
             <=> (tasks[last'.id].assignedTo = Null) )
      => ( (tasks'[last'.id].status = "Unassigned")
             <=> (tasks'[last'.id].assignedTo = Null) ) ]_vars

\* An Assign has just re-activated a completed task that had an assignee.
AssignmentOpActed ==
  /\ last.op = "Assign" /\ last.code = 200
  /\ Logged("TASK_ASSIGNED")
  /\ Val(activityLog[1].oldValue).status = "Completed"
  /\ Val(activityLog[1].oldValue).assignedTo # Null
  /\ tasks[last.id].status = "Pending"
  /\ tasks[last.id].assignedTo = last.emp

\* C3: a PUT /api/tasks/:id changes the stored status only from Pending to
\* Completed or one of the six outcome statuses, or from Completed to
\* Verified; any other requested status leaves the stored status as it was.
StatusChangesFollowTable ==
  [][ (last'.op = "UpdateTask" /\ last'.id \in DOMAIN tasks)
      => LET old == tasks[last'.id].status
             new == tasks'[last'.id].status
         IN \/ new = old
            \/ /\ old = "Pending"
               /\ new \in { "Completed", "Left Job", "Not Sharing Info",
                            "Not Picking", "Switch Off", "Incorrect Number",
                            "Wrong Address" }
            \/ old = "Completed" /\ new = "Verified" ]_vars

\* C4: no PUT /api/tasks/:id changes the status of a task that is Verified.
VerifiedIsTerminal ==
  [][ ( /\ last'.op = "UpdateTask"
        /\ last'.id \in DOMAIN tasks
        /\ tasks[last'.id].status = "Verified" )
      => tasks'[last'.id].status = "Verified" ]_vars

\* C5: an Assign that names an existing task and a user of role employee
\* succeeds and leaves the task Pending and assigned to that employee, with
\* assignedAtTimestamp the instant the request read from the clock and
\* assignedDate the day of an instant during the request, whatever the
\* status before.
AssignForcesPending ==
  [][ ( /\ last'.op = "Assign"
        /\ last'.id \in DOMAIN tasks
        /\ last'.emp \in { Some(e) : e \in Employees } )
      => ( /\ last'.code = 200
           /\ tasks'[last'.id].status = "Pending"
           /\ tasks'[last'.id].assignedTo = last'.emp
           /\ tasks'[last'.id].assignedAtTimestamp = Some(now')
           /\ \E t \in now..now' :
                tasks'[last'.id].assignedDate = Some(DateOf(t)) ) ]_vars

\* An Assign has just put a Verified task back to Pending.
AssignedFromVerified ==
  /\ last.op = "Assign" /\ last.code = 200
  /\ Logged("TASK_ASSIGNED")
  /\ Val(activityLog[1].oldValue).status = "Verified"
  /\ tasks[last.id].status = "Pending"
  /\ tasks[last.id].verifiedAt # Null
  /\ tasks[last.id].assignedAtTimestamp = Some(now)

\* C6: an Unassign that directly follows a successful Unassign of the same
\* task succeeds too and leaves the task exactly as the first one left it:
\* no assignee, no assignment date or timestamp, status Unassigned.
UnassignIdempotent ==
  [][ ( /\ last.op = "Unassign" /\ last.code = 200
        /\ last'.op = "Unassign" /\ last'.id = last.id )
      => ( /\ last'.code = 200
           /\ tasks' = tasks
           /\ tasks'[last'.id].assignedTo = Null
           /\ tasks'[last'.id].assignedDate = Null
           /\ tasks'[last'.id].assignedAtTimestamp = Null
           /\ tasks'[last'.id].status = "Unassigned" ) ]_vars

\* An Unassign has just succeeded on a task that an earlier Unassign had
\* already returned to the pool (it has been worked on, and has no assignee).
UnassignedAgain ==
  /\ last.op = "Unassign" /\ last.code = 200
  /\ Logged("TASK_UNASSIGNED")
  /\ Val(activityLog[1].oldValue).status = "Unassigned"
  /\ Val(activityLog[1].oldValue).assignedTo = Null
  /\ tasks[last.id].completedAt # Null
  /\ tasks[last.id].status = "Unassigned"

\* C7: once completedAt (or verifiedAt) of a task is set, no operation
\* changes it for as long as the task exists.
StampsWriteOnce ==
  [][ \A id \in DOMAIN tasks \cap DOMAIN tasks' :
        /\ tasks[id].completedAt # Null
             => tasks'[id].completedAt = tasks[id].completedAt
        /\ tasks[id].verifiedAt # Null
             => tasks'[id].verifiedAt = tasks[id].verifiedAt ]_vars

\* A task has just re-entered Completed, after the clock moved on, and kept
\* the completedAt of its first completion.
CompletedAgain ==
  /\ last.op = "UpdateTask" /\ last.code = 200
  /\ last.status = Some("Completed")
  /\ Logged("TASK_UPDATED")
  /\ Val(activityLog[1].oldValue).status = "Pending"
  /\ Val(activityLog[1].oldValue).completedAt # Null
  /\ tasks[last.id].status = "Completed"
  /\ tasks[last.id].completedAt = Val(activityLog[1].oldValue).completedAt
  /\ Val(tasks[last.id].completedAt) < now

\* C8 as stated: whenever two of assignedAtTimestamp, completedAt and
\* verifiedAt of a task are set, assignedAtTimestamp <= completedAt <=
\* verifiedAt.
TimestampsOrdered ==
  \A id \in DOMAIN tasks :
    /\ \A a \in tasks[id].assignedAtTimestamp, c \in tasks[id].completedAt :
         a <= c
    /\ \A c \in tasks[id].completedAt, v \in tasks[id].verifiedAt : c <= v
    /\ \A a \in tasks[id].assignedAtTimestamp, v \in tasks[id].verifiedAt :
         a <= v

\* C8 as amended: an operation that sets assignedAtTimestamp, completedAt or
\* verifiedAt of a task sets it to an instant no earlier than any of the
\* three timestamps the task held before the operation.
StampsAreLatest ==
  [][ \A id \in DOMAIN tasks \cap DOMAIN tasks' :
        LET held == tasks[id].assignedAtTimestamp \cup tasks[id].completedAt
                      \cup tasks[id].verifiedAt
            written ==
              (IF tasks'[id].assignedAtTimestamp
                    # tasks[id].assignedAtTimestamp
                 THEN tasks'[id].assignedAtTimestamp ELSE {})
              \cup (IF tasks'[id].completedAt # tasks[id].completedAt
                      THEN tasks'[id].completedAt ELSE {})
              \cup (IF tasks'[id].verifiedAt # tasks[id].verifiedAt
                      THEN tasks'[id].verifiedAt ELSE {})
        IN \A w \in written, h \in held : h <= w ]_vars

\* A status update has just stamped verifiedAt on a task that already held
\* an assignment timestamp and a completion timestamp.
VerifiedStamped ==
  /\ last.op = "UpdateTask" /\ last.code = 200
  /\ last.status = Some("Verified")
  /\ Logged("TASK_UPDATED")
  /\ Val(activityLog[1].oldValue).verifiedAt = Null
  /\ tasks[last.id].verifiedAt = Some(now)
  /\ tasks[last.id].completedAt # Null
  /\ tasks[last.id].assignedAtTimestamp # Null

\* C9: a Reassign that names an existing task and a user of role employee
\* succeeds, sets assignedTo to that employee and assignedAtTimestamp to the
\* instant it read from the clock, and sets the status to Pending if it was
\* Unassigned and leaves it as it was otherwise.
ReassignKeepsStatus ==
  [][ ( /\ last'.op = "Reassign"
        /\ last'.id \in DOMAIN tasks
        /\ last'.emp \in { Some(e) : e \in Employees } )
      => ( /\ last'.code = 200
           /\ tasks'[last'.id].assignedTo = last'.emp
           /\ tasks'[last'.id].assignedAtTimestamp = Some(now')
           /\ tasks'[last'.id].status =
                IF tasks[last'.id].status = "Unassigned" THEN "Pending"
                ELSE tasks[last'.id].status ) ]_vars

\* A Reassign has just moved a Completed task from one employee to another.
ReassignedCompleted ==
  /\ last.op = "Reassign" /\ last.code = 200
  /\ Logged("TASK_REASSIGNED")
  /\ Val(activityLog[1].oldValue).assignedTo # Null
  /\ Val(activityLog[1].oldValue).assignedTo # last.emp
  /\ tasks[last.id].assignedTo = last.emp
  /\ tasks[last.id].status = "Completed"

\* C10: a PUT /api/tasks/:id whose requested status is the status the task
\* already has leaves status, completedAt and verifiedAt as they were.
SameStatusIsNoOp ==
  [][ ( /\ last'.op = "UpdateTask"
        /\ last'.id \in DOMAIN tasks
        /\ last'.status = Some(tasks[last'.id].status) )
      => ( /\ last'.code = 200
           /\ tasks'[last'.id].status = tasks[last'.id].status
           /\ tasks'[last'.id].completedAt = tasks[last'.id].completedAt
           /\ tasks'[last'.id].verifiedAt = tasks[last'.id].verifiedAt ) ]_vars

\* A request naming Completed has just updated the notes of a task that was
\* Completed already, after the clock moved on.
SameStatusUpdated ==
  /\ last.op = "UpdateTask" /\ last.code = 200
  /\ last.status = Some("Completed")
  /\ Logged("TASK_UPDATED")
  /\ Val(activityLog[1].oldValue).status = "Completed"
  /\ Val(activityLog[1].newValue).notes # Null
  /\ tasks[last.id].status = "Completed"
  /\ tasks[last.id].notes # Null
  /\ Val(tasks[last.id].completedAt) < now

\* C11: an Assign or Reassign whose body names no employee answers 400;
\* otherwise one that names no stored task answers 404 "Task not found";
\* otherwise one whose target user does not exist or is not of role employee
\* answers 404 for the employee; and in each of the three cases no task is
\* changed and no audit row is written.
AssignFailuresChangeNothing ==
  [][ last'.op \in {"Assign", "Reassign"}
      => LET noBody == last'.emp = Null
             noTask == last'.id \notin DOMAIN tasks
             noEmployee == last'.emp \notin { Some(e) : e \in Employees }
         IN /\ noBody => last'.code = 400
            /\ (~noBody /\ noTask)
                 => last'.code = 404 /\ last'.msg = "Task not found"
            /\ (~noBody /\ ~noTask /\ noEmployee)
                 => /\ last'.code = 404
                    /\ last'.msg \in { "Employee not found or invalid",
                                       "New employee not found or invalid" }
            /\ (noBody \/ noTask \/ noEmployee)
                 => /\ tasks' = tasks
                    /\ activityLog' = << >>
                    /\ nextId' = nextId ]_vars

\* A Reassign naming the admin as the new employee has just been refused,
\* and the Completed task it named still belongs to its employee.
ReassignRefused ==
  /\ last.op = "Reassign" /\ last.code = 404
  /\ last.msg = "New employee not found or invalid"
  /\ last.emp = Some(1)
  /\ activityLog = << >>
  /\ last.id \in DOMAIN tasks
  /\ tasks[last.id].status = "Completed"
  /\ tasks[last.id].assignedTo \in { Some(e) : e \in Employees }

\* C12: a POST /api/tasks with a title and a pincode that is absent or six
\* digits answers with success and stores exactly one new task.
CreateStoresOneTask ==
  [][ \A title \in TitleInputs, pincode \in PincodeInputs :
        ( /\ CreateTask(title, pincode)
          /\ title # Null
          /\ pincode = Null \/ IsSixDigits(Val(pincode)) )
        => ( /\ last'.code = 200
             /\ Cardinality(DOMAIN tasks') = Cardinality(DOMAIN tasks) + 1
             /\ \A id \in DOMAIN tasks : id \in DOMAIN tasks'
                                         /\ tasks'[id] = tasks[id] ) ]_vars

\* The error lines of the latest answer, [] when it carries none.
ReportedErrors(report) ==
  IF report.errors = Null THEN << >> ELSE Val(report.errors)

\* The 1-based positions of the rows of the sheet for which the answer holds
\* no error line.
RowsWithoutError(report, n) ==
  { i \in 1..n :
      \A k \in 1..Len(ReportedErrors(report)) :
        ReportedErrors(report)[k].row # i + 1 }

\* The k-th smallest element of a set of numbers.
Kth(S, k) == CHOOSE x \in S : Cardinality({ y \in S : y < x }) = k - 1

\* C14: a bulk import of a sheet of N >= 1 rows answers with successCount +
\* errorCount = N, stores exactly successCount new tasks, and handles every
\* row once and in file order: when the answer shows every error line, the
\* lines are for distinct rows in increasing order, there are errorCount of
\* them, and the new tasks are, in id order, the rows without an error line.
ImportCountsAddUp ==
  [][ (last'.op = "BulkUpload" /\ last'.code = 200)
      => LET data == last'.upload.data
             n == Len(data)
             report == last'.report
             errors == ReportedErrors(report)
             new == DOMAIN tasks' \ DOMAIN tasks
             accepted == RowsWithoutError(report, n)
         IN /\ n >= 1
            /\ report.successCount + report.errorCount = n
            /\ Cardinality(new) = report.successCount
            /\ new = nextId..(nextId + report.successCount - 1)
            /\ ~report.hasMoreErrors
                 => /\ Len(errors) = report.errorCount
                    /\ \A k \in 1..Len(errors) : errors[k].row \in 2..(n + 1)
                    /\ \A j, k \in 1..Len(errors) :
                         j < k => errors[j].row < errors[k].row
                    /\ Cardinality(accepted) = report.successCount
                    /\ \A k \in 1..report.successCount :
                         tasks'[nextId + k - 1].title =
                           Trim(Val(data[Kth(accepted, k)].caseId)) ]_vars

\* An import of two rows has just rejected the first and stored the second
\* behind the task of an earlier import.
ImportedAfterBadRow ==
  /\ last.op = "BulkUpload" /\ last.code = 200
  /\ Len(last.upload.data) = 2
  /\ last.report.successCount = 1 /\ last.report.errorCount = 1
  /\ ReportedErrors(last.report)[1].row = 2
  /\ nextId = 3
  /\ DOMAIN tasks = 1..2
  /\ tasks[1].title = <<"C", "1">>
  /\ tasks[2].title = <<"C", "4">>

\* The error lines an answer holds for the row at 1-based position i.
ErrorLinesOf(report, i) ==
  { e \in { ReportedErrors(report)[k] :
             k \in 1..Len(ReportedErrors(report)) } : e.row = i + 1 }

\* C15: in the answer of a bulk import the rows without an error line are
\* the rows that were stored, and what the answer says about the row at
\* position i (no error line, or its one line with row number, reason and
\* quoted value) is what the import of any other sheet with the same row at
\* position i says about it.
RowsIndependent ==
  (last.op = "BulkUpload" /\ last.code = 200 /\ ~last.report.hasMoreErrors)
  => LET data == last.upload.data
         n == Len(data)
     IN /\ last.report.successCount
             = Cardinality(RowsWithoutError(last.report, n))
        /\ \A other \in ImportDatasets :
             LET answer == BulkReport(ProcessRows(other, 0)) IN
             ~answer.hasMoreErrors
             => \A i \in 1..Min(n, Len(other)) :
                  other[i] = data[i]
                  => ErrorLinesOf(last.report, i) = ErrorLinesOf(answer, i)

\* An import has just stored the second row of a sheet whose first row had
\* no case id.
StoredAfterRejectedRow ==
  /\ last.op = "BulkUpload" /\ last.code = 200
  /\ last.upload.data = <<NoCaseRow, GoodRow>>
  /\ last.report.successCount = 1
  /\ ErrorLinesOf(last.report, 1) # {}
  /\ ErrorLinesOf(last.report, 2) = {}
  /\ nextId - 1 \in DOMAIN tasks
  /\ tasks[nextId - 1].title = <<"C", "1">>

\* C16: the k-th error line of a bulk import names the k-th row the loop
\* rejected, as row i + 2 for the record at 0-based index i; and the import
\* of N well-formed rows of which only the third has a five-digit pincode
\* answers successCount N - 1, errorCount 1 and the one line "Row 4: Pincode
\* must be exactly 6 digits (got: 12345)".
ErrorsCountFromHeader ==
  (last.op = "BulkUpload" /\ last.code = 200)
  => LET data == last.upload.data
         n == Len(data)
         errors == ReportedErrors(last.report)
         rejected == { i \in 0..(n - 1) : ~ProcessRow(data[i + 1], i).ok }
     IN /\ \A k \in 1..Len(errors) : errors[k].row = Kth(rejected, k) + 2
        /\ ( /\ n >= 3
             /\ \A i \in 1..n :
                  data[i] = IF i = 3 THEN ShortPinRow ELSE GoodRow )
           => /\ last.report.successCount = n - 1
              /\ last.report.errorCount = 1
              /\ last.report.errors =
                   Some(<< RowError(4, "Pincode must be exactly 6 digits",
                                    <<"1", "2", "3", "4", "5">>) >>)

\* An import of three rows has just stored two and rejected the third for
\* its pincode, as row 4.
ThirdRowRejected ==
  /\ last.op = "BulkUpload" /\ last.code = 200
  /\ Len(last.upload.data) = 3
  /\ last.upload.data[3] = ShortPinRow
  /\ last.report.successCount = 2
  /\ last.report.errorCount = 1
  /\ ReportedErrors(last.report)[1].row = 4
  /\ ReportedErrors(last.report)[1].got = <<"1", "2", "3", "4", "5">>
  /\ DOMAIN tasks = 1..2

\* C17: in the answer of a bulk import a row with no case id has the one
\* line "CaseID/Title is required", whatever its pincode; otherwise a row
\* with no pincode has the one line "Pincode is required"; otherwise a row
\* whose trimmed pincode is not six digits has the one line "Pincode must be
\* exactly 6 digits" quoting the trimmed value; and any other row has none
\* of these three lines.
ValidatorFirstFailureWins ==
  (last.op = "BulkUpload" /\ last.code = 200 /\ ~last.report.hasMoreErrors)
  => \A i \in 1..Len(last.upload.data) :
       LET row == last.upload.data[i]
           lines == ErrorLinesOf(last.report, i)
       IN IF row.caseId = Null
            THEN lines = { RowError(i + 1, "CaseID/Title is required", <<>>) }
          ELSE IF row.pincode = Null
            THEN lines = { RowError(i + 1, "Pincode is required", <<>>) }
          ELSE IF ~IsSixDigits(Trim(Val(row.pincode)))
            THEN lines = { RowError(i + 1, "Pincode must be exactly 6 digits",
                                    Trim(Val(row.pincode))) }
          ELSE \A e \in lines :
                 e.reason \notin { "CaseID/Title is required",
                                   "Pincode is required",
                                   "Pincode must be exactly 6 digits" }

\* An import has just rejected a row without case id and with a five-digit
\* pincode for its case id, and stored a row whose six-digit pincode came
\* with a leading blank.
CaseIdCheckedFirst ==
  /\ last.op = "BulkUpload" /\ last.code = 200
  /\ last.upload.data = <<NoCaseRow, GoodRow>>
  /\ ReportedErrors(last.report) =
       << RowError(2, "CaseID/Title is required", <<>>) >>
  /\ last.report.successCount = 1
  /\ \E id \in DOMAIN tasks :
       tasks[id].pincode = Some(<<"5", "6", "0", "0", "0", "1">>)

\* The error lines of all the rows of a sheet that the loop rejects, in row
\* order.
AllErrorLines(data) ==
  LET rejected == { i \in 0..(Len(data) - 1) : ~ProcessRow(data[i + 1], i).ok }
  IN [ k \in 1..Cardinality(rejected) |->
         ProcessRow(data[Kth(rejected, k) + 1], Kth(rejected, k)).error ]

\* C19 as stated: the answer of a bulk import carries as its error list the
\* first min(20, errorCount) error lines in row order, hasMoreErrors is true
\* exactly when there are more than 20 lines, and errorCount is the number
\* of all rejected rows.
ErrorListIsCappedPrefix ==
  (last.op = "BulkUpload" /\ last.code = 200)
  => LET all == AllErrorLines(last.upload.data) IN
     /\ last.report.errors = Some(SubSeq(all, 1, Min(ErrorCap, Len(all))))
     /\ last.report.hasMoreErrors <=> Len(all) > ErrorCap
     /\ last.report.errorCount = Len(all)

\* C19 as amended: when at least one row was rejected the answer carries the
\* first min(20, errorCount) error lines in row order, and when none was
\* rejected it carries null in place of the list; hasMoreErrors is true
\* exactly when there are more than 20 lines, and errorCount is the number
\* of all rejected rows.
ErrorListIsCappedPrefixOrNull ==
  (last.op = "BulkUpload" /\ last.code = 200)
  => LET all == AllErrorLines(last.upload.data) IN
     /\ last.report.errors =
          IF Len(all) = 0 THEN Null
          ELSE Some(SubSeq(all, 1, Min(ErrorCap, Len(all))))
     /\ last.report.hasMoreErrors <=> Len(all) > ErrorCap
     /\ last.report.errorCount = Len(all)

\* An import has just rejected more rows than the answer lists: the list
\* ends with the line of the twentieth rejected row.
ErrorListCut ==
  /\ last.op = "BulkUpload" /\ last.code = 200
  /\ last.report.errorCount = ErrorCap + 2
  /\ last.report.hasMoreErrors
  /\ Len(ReportedErrors(last.report)) = ErrorCap
  /\ ReportedErrors(last.report)[ErrorCap].row = ErrorCap + 1
  /\ ReportedErrors(last.report)[1].row = 2

\* C20: when a bulk-upload request that carried a file is answered (sheet
\* without rows, every row stored, some rows rejected, or the file could not
\* be read), the file is no longer on disk and the handler has called
\* fs.unlinkSync on it once.
UploadDeletedOnce ==
  (last.op = "BulkUpload" /\ last.upload.received)
  => /\ ~last.upload.exists
     /\ last.upload.unlinks = 1

\* A bulk upload whose file could not be read has just been answered with
\* 500, after its catch block removed the file.
UnreadableUploadRemoved ==
  /\ last.op = "BulkUpload" /\ last.code = 500
  /\ last.upload.received
  /\ ~last.upload.exists
  /\ last.upload.unlinks = 1
  /\ activityLog = << >>

\* C18: a bulk import leaves every task that was stored before it as it was,
\* and every task it stores has no assignee, no assignment date, no
\* assignment timestamp and status Unassigned, whatever columns its row has.
ImportStoresUnassigned ==
  [][ last'.op = "BulkUpload"
      => /\ \A id \in DOMAIN tasks :
              id \in DOMAIN tasks' /\ tasks'[id] = tasks[id]
         /\ \A id \in DOMAIN tasks' \ DOMAIN tasks :
              /\ tasks'[id].assignedTo = Null
              /\ tasks'[id].assignedDate = Null
              /\ tasks'[id].assignedAtTimestamp = Null
              /\ tasks'[id].status = "Unassigned" ]_vars

\* An import has just stored, unassigned, a row that came with the columns
\* AssignedTo and Status, next to a task that is Completed by employee 3.
ImportedNextToAssigned ==
  /\ last.op = "BulkUpload" /\ last.code = 200
  /\ last.upload.data = <<AssignedRow>>
  /\ DOMAIN tasks = {1, 2}
  /\ tasks[1].status = "Completed"
  /\ tasks[1].assignedTo = Some(3)
  /\ tasks[2].title = <<"C", "4">>
  /\ tasks[2].status = "Unassigned"
  /\ tasks[2].assignedTo = Null

\* The latest request was a DELETE that removed the task id.
JustDeleted(id) ==
  last.op = "DeleteTask" /\ last.code = 200 /\ last.id = id

\* The task id is in no answer of GET /api/tasks or GET /api/tasks/unassigned.
NotListed(id) ==
  /\ id \notin GetUnassignedTasks
  /\ \A query \in Queries : id \notin GetTasks(query)

\* C13 as stated: once a DELETE has removed a task, its id is never again
\* the id of a stored task or part of a listing, and every later Assign,
\* Unassign, Reassign, status update and DELETE on that id is answered 404;
\* a DELETE on an id of no stored task is answered 404; and none of these
\* refused requests changes a task.
DeletionIsTerminal ==
  /\ \A id \in StoredIds :
       [](JustDeleted(id) => [](id \notin DOMAIN tasks /\ NotListed(id)))
  /\ [][ ( /\ last'.op \in { "Assign", "Unassign", "Reassign", "UpdateTask",
                            "DeleteTask" }
           /\ last'.id \notin DOMAIN tasks
           /\ last'.id < nextId \/ last'.op = "DeleteTask" )
         => ( /\ last'.code = 404
              /\ tasks' = tasks
              /\ activityLog' = << >> ) ]_vars

\* C13 as amended: as stated, except that an Assign or Reassign on the id of
\* a removed task whose body names no employee is answered 400, the body
\* being examined before the task is looked up.
DeletionIsTerminalAfterBodyCheck ==
  /\ \A id \in StoredIds :
       [](JustDeleted(id) => [](id \notin DOMAIN tasks /\ NotListed(id)))
  /\ [][ ( /\ last'.op \in { "Assign", "Unassign", "Reassign", "UpdateTask",
                            "DeleteTask" }
           /\ last'.id \notin DOMAIN tasks
           /\ last'.id < nextId \/ last'.op = "DeleteTask" )
         => ( /\ last'.code =
                   IF last'.op \in { "Assign", "Reassign" } /\ last'.emp = Null
                     THEN 400 ELSE 404
              /\ tasks' = tasks
              /\ activityLog' = << >> ) ]_vars

\* A Reassign to an employee has just been answered 404 for a task that a
\* DELETE removed, while a task imported after the removal is stored under
\* the next id.
RefusedAfterDeletion ==
  /\ last.op = "Reassign" /\ last.code = 404
  /\ last.msg = "Task not found"
  /\ last.emp = Some(3)
  /\ last.id = 1
  /\ DOMAIN tasks = {2}
  /\ nextId = 3

\* C21: a bulk upload whose file decodes to a sheet without rows is answered
\* 400 "Excel file is empty or invalid format"; it stores no task, reports
\* no row error and writes no audit row.
EmptySheetRejected ==
  [][ \A actor \in ActorInputs :
        BulkUpload(RowIds, "ok", << >>, actor)
        => ( /\ last'.code = 400
             /\ last'.msg = "Excel file is empty or invalid format"
             /\ tasks' = tasks
             /\ nextId' = nextId
             /\ last'.report = NoReport
             /\ activityLog' = << >> ) ]_vars

\* A bulk upload of a sheet without rows has just been refused while the
\* table holds a task.
EmptySheetRefused ==
  /\ last.op = "BulkUpload" /\ last.code = 400
  /\ last.msg = "Excel file is empty or invalid format"
  /\ last.upload.received
  /\ last.upload.data = << >>
  /\ activityLog = << >>
  /\ DOMAIN tasks = {1}

\* C22: a bulk import that ran over a sheet with rows has written exactly
\* one audit row, BULK_UPLOAD_COMPLETED, carrying the number of rows, the
\* successCount and the errorCount of the run.
OneAuditRowPerImport ==
  (last.op = "BulkUpload" /\ last.code = 200)
  => /\ Logged("BULK_UPLOAD_COMPLETED")
     /\ Val(activityLog[1].oldValue).totalRows = Len(last.upload.data)
     /\ Val(activityLog[1].newValue).successCount = last.report.successCount
     /\ Val(activityLog[1].newValue).errorCount = last.report.errorCount

\* C23: every successful Assign, Unassign and Reassign writes exactly one
\* audit row, and when the operation changed the status or the assignee of
\* the task, oldValue holds the value before it and newValue the value
\* after it.
AuditHoldsChangedFields ==
  [][ (last'.op \in {"Assign", "Unassign", "Reassign"} /\ last'.code = 200)
      => /\ Len(activityLog') = 1
         /\ \A f \in {"status", "assignedTo"} :
              tasks[last'.id][f] # tasks'[last'.id][f]
              => /\ f \in DOMAIN Val(activityLog'[1].oldValue)
                 /\ Val(activityLog'[1].oldValue)[f] = tasks[last'.id][f]
                 /\ f \in DOMAIN Val(activityLog'[1].newValue)
                 /\ Val(activityLog'[1].newValue)[f] = tasks'[last'.id][f] ]_vars

\* C28: in every reachable state a task whose status is Completed has a
\* completedAt and a task whose status is Verified has a verifiedAt.
FinishedTasksAreStamped ==
  \A id \in DOMAIN tasks :
    /\ tasks[id].status = "Completed" => tasks[id].completedAt # Null
    /\ tasks[id].status = "Verified" => tasks[id].verifiedAt # Null

\* A status update has just moved a task that was never completed from
\* Unassigned to Verified, and stamped verifiedAt.
VerifiedFromPool ==
  /\ last.op = "UpdateTask" /\ last.code = 200
  /\ last.status = Some("Verified")
  /\ Logged("TASK_UPDATED")
  /\ Val(activityLog[1].oldValue).status = "Unassigned"
  /\ tasks[last.id].status = "Verified"
  /\ tasks[last.id].verifiedAt = Some(now)
  /\ tasks[last.id].completedAt = Null

\* C29: in every reachable state a task with an assignee has an
\* assignedDate and an assignedAtTimestamp, and a task without an assignee
\* has neither.
AssigneeHasDates ==
  \A id \in DOMAIN tasks :
    IF tasks[id].assignedTo # Null
      THEN tasks[id].assignedDate # Null
           /\ tasks[id].assignedAtTimestamp # Null
      ELSE tasks[id].assignedDate = Null
           /\ tasks[id].assignedAtTimestamp = Null

\* C30: the stored status of every task is always one of the ten statuses
\* of the model, and a PUT /api/tasks/:id that names any other status is
\* answered 400, leaves the task as it was (status, completedAt, verifiedAt,
\* notes, manualDate and manualTime included) and writes no audit row.
StatusStaysInEnum ==
  /\ [](\A id \in DOMAIN tasks : tasks[id].status \in Statuses)
  /\ [][ ( /\ last'.op = "UpdateTask"
           /\ last'.id \in DOMAIN tasks
           /\ last'.status # Null
           /\ Val(last'.status) \notin Statuses )
         => ( /\ last'.code = 400
              /\ tasks' = tasks
              /\ activityLog' = << >> ) ]_vars

\* A status update naming a status outside the model has just been refused
\* for a Completed task, which is still Completed.
UnknownStatusRefused ==
  /\ last.op = "UpdateTask" /\ last.code = 400
  /\ last.status = Some("Archived")
  /\ activityLog = << >>
  /\ last.id \in DOMAIN tasks
  /\ tasks[last.id].status = "Completed"
  /\ tasks[last.id].completedAt # Null

\* The latest request imported a sheet of one row that has the columns of
\* CoordRows, and was answered 200.
LocatedRowImported ==
  /\ last.op = "BulkUpload" /\ last.code = 200
  /\ Len(last.upload.data) = 1
  /\ "mapUrl" \in DOMAIN last.upload.data[1]

\* the row of that sheet, and the task stored for it
LocatedRow == last.upload.data[1]

LocatedTask == tasks[nextId - 1]

\* C24: a latitude or longitude the row supplies (0 included, and also when
\* only one of the two is supplied) is the value stored for the imported
\* task, whatever the map link of the row holds.
SuppliedCoordinatesWin ==
  (LocatedRowImported /\ last.report.successCount = 1)
  => /\ LocatedRow.latitude # Null
          => LocatedTask.latitude = LocatedRow.latitude
     /\ LocatedRow.longitude # Null
          => LocatedTask.longitude = LocatedRow.longitude

Dec(neg, whole, frac) == [ neg |-> neg, whole |-> whole, frac |-> frac ]

\* The pair the two forms yield for each link of UrlInputs, written out:
\* the pair after the first @ that a pair follows, else the pair after the
\* first ?q= that a pair follows, else none.
ExpectedPair(url) ==
  CASE url = Some(UrlAt) ->
         Some([ latitude |-> Dec(FALSE, 12, <<"5">>),
                longitude |-> Dec(FALSE, 77, <<"5">>) ])
    [] url = Some(UrlQuery) ->
         Some([ latitude |-> Dec(TRUE, 3, <<"2", "5">>),
                longitude |-> Dec(FALSE, 4, <<>>) ])
    [] url = Some(UrlBoth) ->
         Some([ latitude |-> Dec(FALSE, 3, <<"5">>),
                longitude |-> Dec(FALSE, 4, <<"5">>) ])
    [] url = Some(UrlLate) ->
         Some([ latitude |-> Dec(FALSE, 1, <<"5">>),
                longitude |-> Dec(FALSE, 2, <<"5">>) ])
    [] url = Some(UrlFar) ->
         Some([ latitude |-> Dec(FALSE, 91, <<"5">>),
                longitude |-> Dec(FALSE, 2, <<"5">>) ])
    [] OTHER -> Null

\* C25: for a row that supplies no coordinate, the stored pair is the one
\* of the @ form when the link has one (also when a ?q= pair precedes it),
\* else the one of the ?q= form; a link that is missing, empty or of
\* neither form yields no pair and the row is stored without coordinates
\* (nothing is raised).  A pair off the globe is extracted all the same and
\* rejected by the validator of the column.
ExtractorTriesAtFormFirst ==
  (/\ LocatedRowImported
   /\ LocatedRow.latitude = Null /\ LocatedRow.longitude = Null)
  => LET expected == ExpectedPair(LocatedRow.mapUrl) IN
     IF expected = Null
       THEN /\ last.report.successCount = 1
            /\ LocatedTask.latitude = Null /\ LocatedTask.longitude = Null
     ELSE IF LocatedRow.mapUrl = Some(UrlFar)
       THEN /\ last.report.successCount = 0
            /\ last.report.errors =
                 Some(<< RowError(2, "Validation max on latitude failed",
                                  <<>>) >>)
     ELSE /\ last.report.successCount = 1
          /\ LocatedTask.latitude = Some(Val(expected).latitude)
          /\ LocatedTask.longitude = Some(Val(expected).longitude)

AtPairWon ==
  /\ LocatedRowImported
  /\ LocatedRow.mapUrl = Some(UrlBoth)
  /\ LocatedRow.latitude = Null /\ LocatedRow.longitude = Null
  /\ last.report.successCount = 1
  /\ LocatedTask.latitude = Some(Dec(FALSE, 3, <<"5">>))
  /\ LocatedTask.longitude = Some(Dec(FALSE, 4, <<"5">>))

\* The request of slot r takes its Write step.
Wrote(r) == inflight[r].op # "none" /\ inflight'[r].op = "none"

\* C26: an Assign that writes while another request is between its read and
\* its write leaves the row a serial Assign at that moment would leave: its
\* own employee, Pending, the date and the timestamp of its own clock
\* reads, every other column as it was, whatever row it had read.
ConcurrentAssignsSerialize ==
  [][ \A r \in Requests :
        (Wrote(r) /\ inflight[r].op = "Assign")
        => LET req == inflight[r]
               row == tasks[req.id]
               new == tasks'[req.id]
           IN /\ new.assignedTo = req.emp
              /\ last'.emp = req.emp
              /\ new.status = "Pending"
              /\ new.assignedAtTimestamp = Some(now')
              /\ new.assignedDate \in { Some(DateOf(t)) : t \in now..now' }
              /\ \A f \in DOMAIN row \ AssignColumns : new[f] = row[f] ]_vars

\* The Assign to employee 3 read the unassigned task, the Assign to
\* employee 2 wrote (a later Unassign has read its row), and the Assign to
\* employee 3 wrote last.
SecondAssignWroteOver ==
  /\ last.op = "Assign" /\ last.code = 200 /\ last.emp = Some(3)
  /\ Logged("TASK_ASSIGNED")
  /\ Val(activityLog[1].oldValue).assignedTo = Null
  /\ \E r \in Requests :
       /\ inflight[r].op = "Unassign"
       /\ inflight[r].task.assignedTo = Some(2)
  /\ tasks[1].assignedTo = Some(3)
  /\ tasks[1].status = "Pending"
  /\ tasks[1].assignedAtTimestamp = Some(now)

Paired(row) == (row.status = "Unassigned") <=> (row.assignedTo = Null)

\* C27: a request that writes after another request has changed the row it
\* read still leaves status = Unassigned exactly when assignedTo is null,
\* and leaves a completedAt or verifiedAt that is set as it is.
RacesKeepPairingAndStamps ==
  [][ \A r \in Requests :
        (/\ Wrote(r)
         /\ inflight[r].task # tasks[inflight[r].id]
         /\ Paired(tasks[inflight[r].id]))
        => LET row == tasks[inflight[r].id]
               new == tasks'[inflight[r].id]
           IN /\ Paired(new)
              /\ row.completedAt # Null => new.completedAt = row.completedAt
              /\ row.verifiedAt # Null => new.verifiedAt = row.verifiedAt ]_vars

====
